---------------------------- MODULE Spec2Model ----------------------------
(***************************************************************************)
(* Model of the asynchronous execution bridge of SL-Tourism:               *)
(* src/async_utils.py (class AsyncExecutor, get_executor, run_async, the   *)
(* exit hook), the queue-polling AsyncExecutor of src/app.py, the chatbot  *)
(* entry points of src/ai_model.py (process_query, _aprocess_query,        *)
(* get_chatbot) and the session handling of the Streamlit script of        *)
(* src/app.py (init_session_state, the chat form of main).                 *)
(*                                                                         *)
(* Caller threads construct/fetch the singleton, submit coroutines and     *)
(* shut the executor down; every started background thread runs            *)
(* AsyncExecutor._run_loop.  Each Python statement that reads or writes    *)
(* shared state is one step, so that the interleavings the interpreter     *)
(* allows between statements are all explored.                             *)
(*                                                                         *)
(* The asyncio event loop is modelled by its documented behaviour:         *)
(* a FIFO of ready handles, run in batches (one batch per loop iteration), *)
(* loop.stop() taking effect at the end of the iteration that runs it,     *)
(* is_running() true between the start and the end of run_forever().       *)
(***************************************************************************)
EXTENDS Integers, Sequences, FiniteSets, TLC

(* ------------------------------ bounds -------------------------------- *)
\* calls (get_executor, run_async, shutdown) made in total
MaxOps == 3
\* characters of a query passed to Chatbot.process_query
MaxQueryLen == 3
\* exchanges the conversation memory can take
MaxExchanges == 2
\* threads that call get_chatbot, and calls they make in total
NumBotThreads == 2
MaxBotCalls == 5
\* messages of a conversation, and form submissions of a session
MaxMsgs == 5
MaxSubmits == 3
\* characters of a message typed into the chat form
MaxFormLen == 2
\* caller threads of the general specification
NumCallers == 2

\* items submitted to the queue-polling executor of src/app.py
MaxItems == 3
\* queue.get calls left blocking in pool threads after their poll was given up
MaxOrphans == 2

\* the start-up specification has one more caller thread, so that MaxOps
\* first calls can race
Callers == 1..(NumCallers + 1)
\* one __init__ body per constructor call at most: loops and threads created
Loops == 1..MaxOps
\* background threads are numbered after the callers
FirstLoopThread == NumCallers + 2
LoopThreads == FirstLoopThread..(FirstLoopThread + MaxOps - 1)
Threads == Callers \cup LoopThreads
\* objects super().__new__ can allocate: one per constructor call at most
Objs == 1..MaxOps
\* coroutine ids: those of the callers, then one inner coroutine per nested one
Coros == 1..(2 * MaxOps)

VARIABLES
  pc,           \* [Threads -> position in the code]
  self,         \* [Threads -> object the running/last call works on, 0 = none]
  instance,     \* AsyncExecutor._instance (0 = None)
  nobj,         \* number of AsyncExecutor objects ever allocated
  lock,         \* AsyncExecutor._lock: holder thread, 0 = free
  executor,     \* module global _executor (0 = None)
  initialized,  \* [Objs -> "unset" | "false" | "true"]  self._initialized
  loopAttr,     \* [Objs -> 0..MaxLoops]  self._loop (0 = attribute not set)
  threadAttr,   \* [Objs -> 0 or a loop thread] self._thread (0 = not set)
  nloops,       \* event loops created so far (asyncio.new_event_loop calls)
  nthreads,     \* background threads started so far
  ops,          \* calls started so far
  runner,       \* [Loops -> thread inside run_forever(), 0 = loop not running]
  ready,        \* [Loops -> FIFO of ready handles]
  stopping,     \* [Loops -> loop.stop() has run in the current iteration]
  ntodo,        \* [Loops -> handles left in the current iteration's batch]
  abandoned,    \* coroutines that were pending on a loop when its
                \*  run_forever() returned
  ncoros,       \* coroutines handed to run_async by callers so far
  kind,         \* [Coros -> "none" | "plain" | "nested" | "timing" | "inner"]
  task,         \* [Coros -> what the coroutine returned or raised on the loop]
  fut,          \* [Coros -> state of the concurrent future returned by submit]
  myc,          \* [Threads -> coroutine of the thread's run_async call, 0 = none]
  cur,          \* [LoopThreads -> coroutine whose step the thread is inside, 0]
  res,          \* [Callers -> what the last run_async call returned or raised]
  joining,      \* [Callers -> thread a shutdown() is joining, 0 = none]
  sdCalled,     \* shutdown() has been called
  sdReturned,   \* some shutdown() call has returned
  second,       \* [Callers -> the last shutdown() began after one had returned]
  sdEnd,        \* [Callers -> "none" | "stopped" | "running": the bridge when
                \*  the caller's last shutdown() returned]
  exiting,      \* the exit hook: the thread that ran it (0 = not run) and the
                \*  _executor it saw
  expired,      \* [Callers -> the wait deadline of the last run_async elapsed]
  afterSd,      \* [Callers -> the last run_async began after a shutdown() returned]
  chkState,     \* [Callers -> lifecycle state submit's is_running() check saw]
  \* the queue-polling AsyncExecutor of src/app.py
  ppc,          \* position of the executor thread / of _process_queue
  queue,        \* self.queue: FIFO of submitted items
  nitems,       \* items submitted so far
  ikind,        \* [Items -> "none" | "plain" | "suspending" | "cancelling"]:
                \*  the coroutine
  future,       \* [Items -> state of the asyncio.Future submit returned]
  awaited,      \* [Items -> how many times the coroutine was awaited]
  item,         \* the item _process_queue is working on, 0 = none
  getState,     \* the queue.get of the current poll: "none" | "blocking" | "got"
  getItem,      \* the item that queue.get returned, 0 = none
  orphans,      \* queue.get calls still blocking whose poll was given up
  lost,         \* items taken from the queue whose poll had been given up
  stopEvent,    \* self._stop_event is set
  stopReq,      \* loop.stop() is scheduled on the loop
  cbk,          \* [Items -> "none" | "absent" | "returns" | "raises"]: the
                \*  callback submitted with the coroutine
  called,       \* [Items -> how many times the callback was invoked]
  sdDone,       \* a shutdown() call of the queue-polling executor returned
  late,         \* items submit accepted after a shutdown() had returned
  \* Chatbot.process_query and the coroutine it hands to the bridge
  \* (src/ai_model.py)
  qpc,          \* position of the coroutine: "idle" | "flight" | "image" |
                \*  "chain" | "save" | "ret"
  query,        \* the query of the call: a sequence of characters
  image,        \* image data was passed with the query
  memory,       \* exchanges saved in the conversation memory
  memStart,     \* memory when the call began
  did,          \* what the call has done: image processed, QA chain invoked
  result,       \* what the coroutine returns
  waiting,      \* the caller of process_query is waiting in run_async
  pqFail,       \* how the bridge call of the last process_query failed
  pqReply,      \* what the last process_query returned or raised
  \* get_chatbot (src/ai_model.py)
  gpc,          \* [BotThreads -> position in get_chatbot]
  chatbotInstance, \* module global _chatbot_instance (0 = None)
  nbots,        \* Chatbot objects constructed successfully so far
  ncalls,       \* get_chatbot calls made so far
  got,          \* [BotThreads -> what the last call returned; 0 = nothing
                \*  yet, -1 = it raised]
  \* the Streamlit script of src/app.py: one session
  upc,          \* position in main(): "new" | "init" | "body" | "failed"
  messages,     \* st.session_state.messages ("absent" or a list)
  sources,      \* st.session_state.sources
  uploaded,     \* st.session_state.uploaded_images
  url,          \* st.query_params['session']
  lastSubmit,   \* st.session_state.last_submit
  nsubmits,     \* form submissions made so far
  handled,      \* the last form submission: the text, last_submit as it
                \*  was, and whether process_user_input was called
  seen          \* what the last init_session_state found: the messages of
                \*  the session state and the session of the URL

Items == 1..MaxItems

\* callbacks and the end of shutdown()
cbVars == <<cbk, called>>
endVars == <<sdDone, late>>

chatVars == <<qpc, query, image, memory, memStart, did, result, waiting,
              pqFail, pqReply>>
botVars == <<gpc, chatbotInstance, nbots, ncalls, got>>
uiVars == <<upc, messages, sources, uploaded, url, lastSubmit, nsubmits,
            handled, seen>>
restVars == <<chatVars, botVars, uiVars>>

appVars == <<ppc, queue, nitems, ikind, future, awaited, item, getState,
             getItem, orphans, lost, stopEvent, stopReq, cbVars, endVars>>

bridgeVars ==
  <<pc, self, instance, nobj, lock, executor, initialized,
    loopAttr, threadAttr, nloops, nthreads, ops, runner, ready,
    stopping, ntodo, abandoned, ncoros, kind, task, fut, myc, cur, res,
    joining, sdCalled, sdReturned, second, sdEnd, exiting, expired,
    afterSd, chkState>>

vars == <<pc, self, instance, nobj, lock, executor, initialized,
          loopAttr, threadAttr, nloops, nthreads, ops, runner, ready,
          stopping, ntodo, abandoned, ncoros, kind, task, fut, myc, cur, res, joining,
          sdCalled, sdReturned, second, sdEnd, exiting, expired, afterSd,
          chkState, ppc, queue, nitems, ikind, future, awaited, item,
          getState, getItem, orphans, lost, stopEvent, stopReq, cbk,
          called, sdDone, late, qpc, query, image, memory, memStart, did,
          result, waiting, pqFail, pqReply, gpc, chatbotInstance, nbots,
          ncalls, got, upc, messages, sources, uploaded, url, lastSubmit,
          nsubmits, handled, seen>>

(* ------------------------- results and handles ------------------------ *)
NoRes == [k |-> "none", v |-> 0]
Pending == [k |-> "pending", v |-> 0]
\* the value coroutine c returns / the exception object coroutine c raises
Ret(c) == [k |-> "ret", v |-> c]
Exc(c) == [k |-> "exc", v |-> c]
\* concurrent.futures.TimeoutError raised by future.result(timeout)
TimeoutErr == [k |-> "timeout", v |-> 0]
\* RuntimeError("Event loop is not running")
NotRunning == [k |-> "notrunning", v |-> 0]

\* a cancelled asyncio.Future
Cancelled == [k |-> "cancelled", v |-> 0]

\* asyncio.CancelledError raised by a coroutine (a BaseException)
CancelledErr == [k |-> "cancellederror", v |-> 0]

\* the exception a callback raises
CallbackExc == [k |-> "exc", v |-> 0]

Handle(op, c) == [op |-> op, c |-> c]

\* response dicts of the chatbot: `error` is the 'error' key, `sorry` tells
\* an answer that apologises ("I'm sorry, ..." / "I apologize, ...")
Reply(k, e, a) == [kind |-> k, error |-> e, sorry |-> a]
NoReply == Reply(<<"none">>, FALSE, FALSE)
\* an exception that leaves process_query
RaisedReply == Reply(<<"raised">>, FALSE, FALSE)

BotThreads == 1..NumBotThreads

\* a value of st.session_state or of the session stored in the URL: a key
\* that is missing, or a key with its value
Absent == [has |-> FALSE, v |-> << >>]
Val(x) == [has |-> TRUE, v |-> x]

\* st.query_params['session']: missing ("none"), not decodable ("invalid")
\* or the encoding of a dict with some of the three keys
Url(st, m, s, u) == [state |-> st, messages |-> m, sources |-> s, uploaded |-> u]
NoUrl == Url("none", Absent, Absent, Absent)

\* st.session_state.last_submit: missing, None or a text
NoSubmit == [set |-> "absent", v |-> << >>]
NoneSubmit == [set |-> "none", v |-> << >>]
Text(m) == [set |-> "text", v |-> m]

Init ==
  /\ pc = [t \in Threads |-> IF t \in Callers THEN "fresh" ELSE "none"]
  /\ self = [t \in Threads |-> 0]
  /\ instance = 0
  /\ nobj = 0
  /\ lock = 0
  /\ executor = 0
  /\ initialized = [o \in Objs |-> "unset"]
  /\ loopAttr = [o \in Objs |-> 0]
  /\ threadAttr = [o \in Objs |-> 0]
  /\ nloops = 0
  /\ nthreads = 0
  /\ ops = 0
  /\ runner = [l \in Loops |-> 0]
  /\ ready = [l \in Loops |-> << >>]
  /\ stopping = [l \in Loops |-> FALSE]
  /\ ntodo = [l \in Loops |-> 0]
  /\ abandoned = {}
  /\ ncoros = 0
  /\ kind = [c \in Coros |-> "none"]
  /\ task = [c \in Coros |-> NoRes]
  /\ fut = [c \in Coros |-> NoRes]
  /\ myc = [t \in Threads |-> 0]
  /\ cur = [k \in LoopThreads |-> 0]
  /\ res = [t \in Callers |-> NoRes]
  /\ joining = [t \in Callers |-> 0]
  /\ sdCalled = FALSE
  /\ sdReturned = FALSE
  /\ second = [t \in Callers |-> FALSE]
  /\ sdEnd = [t \in Callers |-> "none"]
  /\ exiting = [who |-> 0, saw |-> 0]
  /\ expired = [t \in Callers |-> FALSE]
  /\ afterSd = [t \in Callers |-> FALSE]
  /\ chkState = [t \in Callers |-> "none"]
  /\ ppc = "none"
  /\ queue = << >>
  /\ nitems = 0
  /\ ikind = [i \in Items |-> "none"]
  /\ future = [i \in Items |-> NoRes]
  /\ awaited = [i \in Items |-> 0]
  /\ item = 0
  /\ getState = "none"
  /\ getItem = 0
  /\ orphans = 0
  /\ lost = {}
  /\ stopEvent = FALSE
  /\ stopReq = FALSE
  /\ cbk = [i \in Items |-> "none"]
  /\ called = [i \in Items |-> 0]
  /\ sdDone = FALSE
  /\ late = {}
  /\ qpc = "idle"
  /\ query = << >>
  /\ image = FALSE
  /\ memory = 0
  /\ memStart = 0
  /\ did = [img |-> FALSE, chain |-> FALSE]
  /\ result = NoReply
  /\ waiting = FALSE
  /\ pqFail = "none"
  /\ pqReply = NoReply
  /\ gpc = [t \in BotThreads |-> "idle"]
  /\ chatbotInstance = 0
  /\ nbots = 0
  /\ ncalls = 0
  /\ got = [t \in BotThreads |-> 0]
  /\ upc = "new"
  /\ messages = Absent
  /\ sources = Absent
  /\ uploaded = Absent
  /\ url = NoUrl
  /\ lastSubmit = NoSubmit
  /\ nsubmits = 0
  /\ handled = [done |-> FALSE, text |-> << >>, last |-> NoSubmit,
                processed |-> FALSE]
  /\ seen = [msgs |-> Absent, url |-> NoUrl]

\* groups of variables, for UNCHANGED
classVars == <<instance, nobj, lock, executor>>
objVars == <<initialized, loopAttr, threadAttr>>
countVars == <<nloops, nthreads, ops>>
loopVars == <<runner, ready, stopping, ntodo, abandoned>>
coroVars == <<ncoros, kind, task, fut, myc, cur, res>>
sdVars == <<joining, sdCalled, sdReturned, second, sdEnd, exiting>>
histVars == <<expired, afterSd, chkState>>

(* ------------------ get_executor() and AsyncExecutor() ---------------- *)

\* Caller threads are interchangeable: thread t+1 makes its first call after
\* thread t has made its first call.  The thread that ran the exit hook makes
\* no further call.
MayCall(t) ==
  /\ pc[t] \in {"fresh", "idle"}
  /\ ops < MaxOps
  /\ exiting.who # t
  /\ IF t = 1 THEN TRUE ELSE pc[t - 1] # "fresh"

\* where a call goes after get_executor() has returned the executor: on to
\* run_async's submit when the call is run_async(coro), back to the caller
\* when it is get_executor() alone, on to shutdown() when it is the
\* get_executor() of the exit hook
AfterGet(t) ==
  IF myc[t] # 0 THEN "sub_check"
  ELSE IF exiting.who = t THEN "sd_check" ELSE "idle"

\* a caller thread calls get_executor(): `if _executor is None`: when it is
\* not, `return _executor`; when it is, AsyncExecutor() is called
GetExecutor(t) ==
  /\ MayCall(t)
  /\ ops' = ops + 1
  /\ myc' = [myc EXCEPT ![t] = 0]
  /\ pc' = [pc EXCEPT ![t] = IF executor # 0 THEN "idle" ELSE "new_check1"]
  /\ self' = [self EXCEPT ![t] = executor]
  /\ UNCHANGED <<restVars, appVars, classVars, objVars, nloops, nthreads, loopVars,
                 ncoros,
                 kind, task, fut, cur, res, sdVars, histVars>>

\* __new__: the unlocked `if cls._instance is None`; when it is not None,
\* `return cls._instance` and Python calls __init__ on it
NewCheck1(t) ==
  /\ pc[t] = "new_check1"
  /\ IF instance = 0
       THEN /\ pc' = [pc EXCEPT ![t] = "new_lock"]
            /\ self' = self
       ELSE /\ pc' = [pc EXCEPT ![t] = "init_check"]
            /\ self' = [self EXCEPT ![t] = instance]
  /\ UNCHANGED <<restVars, appVars, classVars, objVars, countVars, loopVars, coroVars,
                 sdVars, histVars>>

\* the second check without the re-check: the lock alone
SecondCheckMissing == TRUE

\* __new__: the second `if cls._instance is None`, under the lock
SecondCheck == instance = 0

\* __new__: `with cls._lock:` blocks until the lock is free; then the second
\* check.  When the instance exists the block is left at once and
\* `return cls._instance` follows, then __init__.
NewLock(t) ==
  /\ pc[t] = "new_lock"
  /\ lock = 0
  /\ IF SecondCheck
       THEN /\ lock' = t
            /\ pc' = [pc EXCEPT ![t] = "new_alloc"]
            /\ self' = self
       ELSE /\ lock' = 0
            /\ pc' = [pc EXCEPT ![t] = "init_check"]
            /\ self' = [self EXCEPT ![t] = instance]
  /\ UNCHANGED <<restVars, appVars, instance, nobj, executor, objVars, countVars,
                 loopVars, coroVars, sdVars, histVars>>

\* __new__: `cls._instance = super().__new__(cls)`: a fresh object, published
\* before it has any attribute
NewAlloc(t) ==
  /\ pc[t] = "new_alloc"
  /\ nobj < MaxOps
  /\ nobj' = nobj + 1
  /\ instance' = nobj + 1
  /\ pc' = [pc EXCEPT ![t] = "new_setflag"]
  /\ UNCHANGED <<restVars, appVars, self, lock, executor, objVars, countVars, loopVars,
                 coroVars, sdVars, histVars>>

\* __new__: `cls._instance._initialized = False`, the end of the `with` block
\* and `return cls._instance`; __init__ follows
NewSetFlag(t) ==
  /\ pc[t] = "new_setflag"
  /\ initialized' = [initialized EXCEPT ![instance] = "false"]
  /\ lock' = 0
  /\ self' = [self EXCEPT ![t] = instance]
  /\ pc' = [pc EXCEPT ![t] = "init_check"]
  /\ UNCHANGED <<restVars, appVars, instance, nobj, executor, loopAttr, threadAttr,
                 countVars,
                 loopVars, coroVars, sdVars, histVars>>

\* __init__: `if not hasattr(self, '_initialized') or not self._initialized`
NeedsInit(o) == initialized[o] # "true"

InitCheck(t) ==
  /\ pc[t] = "init_check"
  /\ pc' = [pc EXCEPT ![t] = IF NeedsInit(self[t]) THEN "init_loop" ELSE "ge_assign"]
  /\ UNCHANGED <<restVars, appVars, self, classVars, objVars, countVars, loopVars,
                 coroVars, sdVars, histVars>>

\* __init__: `self._loop = asyncio.new_event_loop()` (the queue and the stop
\* event created with it are never read by this class)
InitLoop(t) ==
  /\ pc[t] = "init_loop"
  /\ nloops < MaxOps
  /\ nloops' = nloops + 1
  /\ loopAttr' = [loopAttr EXCEPT ![self[t]] = nloops + 1]
  /\ pc' = [pc EXCEPT ![t] = "init_flag"]
  /\ UNCHANGED <<restVars, appVars, self, classVars, initialized, threadAttr, nthreads,
                 ops, loopVars, coroVars, sdVars, histVars>>

\* __init__: `self._initialized = True`
InitFlag(t) ==
  /\ pc[t] = "init_flag"
  /\ initialized' = [initialized EXCEPT ![self[t]] = "true"]
  /\ pc' = [pc EXCEPT ![t] = "init_start"]
  /\ UNCHANGED <<restVars, appVars, self, classVars, loopAttr, threadAttr, countVars,
                 loopVars, coroVars, sdVars, histVars>>

\* __init__: `self._thread = threading.Thread(target=self._run_loop, ...)`
\* and `self._thread.start()`, which returns once the thread has begun;
\* __init__ returns
InitStart(t) ==
  /\ pc[t] = "init_start"
  /\ nthreads < MaxOps
  /\ LET k == FirstLoopThread + nthreads IN
       /\ nthreads' = nthreads + 1
       /\ threadAttr' = [threadAttr EXCEPT ![self[t]] = k]
       /\ pc' = [pc EXCEPT ![t] = "ge_assign", ![k] = "started"]
       /\ self' = [self EXCEPT ![k] = self[t]]
  /\ UNCHANGED <<restVars, appVars, classVars, initialized, loopAttr, nloops, ops,
                 loopVars, coroVars, sdVars, histVars>>

\* get_executor(): `_executor = AsyncExecutor()`; `return _executor`
GetExecutorAssign(t) ==
  /\ pc[t] = "ge_assign"
  /\ executor' = self[t]
  /\ pc' = [pc EXCEPT ![t] = AfterGet(t)]
  /\ sdCalled' = (sdCalled \/ AfterGet(t) = "sd_check")
  /\ UNCHANGED <<restVars, appVars, self, instance, nobj, lock, objVars, countVars,
                 loopVars, coroVars, joining, sdReturned, second, sdEnd,
                 exiting, histVars>>

(* --------------------- the background loop thread --------------------- *)

\* threading.Thread.is_alive()
IsAlive(k) == pc[k] \notin {"none", "dead"}

\* loop.is_running()
IsRunning(l) == l # 0 /\ runner[l] # 0

\* the loop whose run_forever() thread k is inside
LoopOf(k) == CHOOSE l \in Loops : runner[l] = k

\* a loop.stop() is scheduled on, or has run in, a loop that has not stopped yet
StopScheduled(l) ==
  stopping[l] \/ \E i \in 1..Len(ready[l]) : ready[l][i].op = "stop"

\* _run_loop: `asyncio.set_event_loop(self._loop)`, `self._loop.run_forever()`.
\* The attribute is read when the thread runs, not when it is created;
\* run_forever() raises RuntimeError on a loop that is already running,
\* which ends the thread.
ThreadRun(k) ==
  /\ pc[k] = "started"
  /\ LET l == loopAttr[self[k]] IN
       IF runner[l] # 0
         THEN /\ pc' = [pc EXCEPT ![k] = "dead"]
              /\ runner' = runner
         ELSE /\ pc' = [pc EXCEPT ![k] = "loop"]
              /\ runner' = [runner EXCEPT ![l] = k]
  /\ UNCHANGED <<restVars, appVars, self, classVars, objVars, countVars, ready,
                 stopping, abandoned,
                 ntodo, coroVars, sdVars, histVars>>

\* handles left in the iteration once the head of the ready queue has been taken:
\* an iteration runs the handles that were ready when it began
BatchLeft(l) == (IF ntodo[l] = 0 THEN Len(ready[l]) ELSE ntodo[l]) - 1

\* the coroutines with a handle in queue q
Queued(q) == {q[i].c : i \in 1..Len(q)} \ {0}

\* run_forever() after a handle has run, q being the ready queue then: when
\* the iteration is over and stop() ran in it, run_forever() returns
\* (clearing the stopping flag) with the handles of q left pending, _run_loop
\* returns and the thread ends; otherwise the loop goes on
EndHandle(k, l, n, stp, q) ==
  IF n = 0 /\ stp
    THEN /\ runner' = [runner EXCEPT ![l] = 0]
         /\ stopping' = [stopping EXCEPT ![l] = FALSE]
         /\ ntodo' = [ntodo EXCEPT ![l] = 0]
         /\ abandoned' = abandoned \cup Queued(q)
         /\ pc' = [pc EXCEPT ![k] = "dead"]
    ELSE /\ runner' = runner
         /\ stopping' = [stopping EXCEPT ![l] = stp]
         /\ ntodo' = [ntodo EXCEPT ![l] = n]
         /\ abandoned' = abandoned
         /\ pc' = [pc EXCEPT ![k] = "loop"]

\* the loop runs the handle shutdown() scheduled: loop.stop()
LoopStop(k) ==
  /\ pc[k] = "loop"
  /\ LET l == LoopOf(k) IN
       /\ ready[l] # << >>
       /\ Head(ready[l]).op = "stop"
       /\ ready' = [ready EXCEPT ![l] = Tail(ready[l])]
       /\ EndHandle(k, l, BatchLeft(l), TRUE, Tail(ready[l]))
  /\ UNCHANGED <<restVars, appVars, self, classVars, objVars, countVars, coroVars, sdVars,
                 histVars>>

\* the loop runs the callback of run_coroutine_threadsafe: the task is
\* created and its first step is scheduled for the next iteration
LoopCreate(k) ==
  /\ pc[k] = "loop"
  /\ LET l == LoopOf(k) IN
       /\ ready[l] # << >>
       /\ Head(ready[l]).op = "create"
       /\ ready' = [ready EXCEPT
                      ![l] = Append(Tail(ready[l]), Handle("step", Head(ready[l]).c))]
       /\ EndHandle(k, l, BatchLeft(l), stopping[l],
                    Append(Tail(ready[l]), Handle("step", Head(ready[l]).c)))
  /\ UNCHANGED <<restVars, appVars, self, classVars, objVars, countVars, coroVars, sdVars,
                 histVars>>

\* what a coroutine that does not call back into the bridge can produce: it
\* returns its value or raises its exception; a coroutine that bounds an
\* await of its own (asyncio.wait_for) raises the timeout exception, which
\* has the class and the empty arguments of the one future.result raises
Outcomes(c) == IF kind[c] = "timing" THEN {TimeoutErr} ELSE {Ret(c), Exc(c)}

\* a copy that always goes to the first future's slot
TargetFirst(c) == 1

\* the future a finished task's outcome is copied to: the one submit returned
\* for that coroutine
Target(c) == c

\* a loop that an exception leaving a coroutine brings down
StopAfterRaise(l, o) == stopping[l] \/ o.k # "ret"

\* whether run_forever() is to return after the iteration in which a task's
\* step produced outcome o: only when stop() ran in it.  The task catches
\* what its coroutine raises and stores it as the task's exception; nothing
\* propagates into the loop.
StopAfter(l, o) == stopping[l]

\* the loop runs the step of a task whose coroutine returns or raises: the
\* outcome is set on the task and copied to the concurrent future
LoopStepDone(k) ==
  /\ pc[k] = "loop"
  /\ LET l == LoopOf(k) IN
       /\ ready[l] # << >>
       /\ Head(ready[l]).op = "step"
       /\ kind[Head(ready[l]).c] # "nested"
       /\ \E o \in Outcomes(Head(ready[l]).c) :
            /\ task' = [task EXCEPT ![Head(ready[l]).c] = o]
            /\ fut' = [fut EXCEPT ![Target(Head(ready[l]).c)] = o]
            /\ EndHandle(k, l, BatchLeft(l), StopAfter(l, o), Tail(ready[l]))
       /\ ready' = [ready EXCEPT ![l] = Tail(ready[l])]
  /\ UNCHANGED <<restVars, appVars, self, classVars, objVars, countVars, ncoros, kind,
                 myc,
                 cur, res, sdVars, histVars>>

\* the loop runs the step of a task whose coroutine calls run_async on the
\* executor: the loop thread itself enters run_async with an inner coroutine
LoopStepNested(k) ==
  /\ pc[k] = "loop"
  /\ LET l == LoopOf(k) IN
       /\ ready[l] # << >>
       /\ Head(ready[l]).op = "step"
       /\ kind[Head(ready[l]).c] = "nested"
       /\ LET c == Head(ready[l]).c IN
            /\ cur' = [cur EXCEPT ![k] = c]
            /\ myc' = [myc EXCEPT ![k] = c + MaxOps]
            /\ kind' = [kind EXCEPT ![c + MaxOps] = "inner"]
       /\ ready' = [ready EXCEPT ![l] = Tail(ready[l])]
       /\ ntodo' = [ntodo EXCEPT ![l] = BatchLeft(l)]
       /\ pc' = [pc EXCEPT ![k] = "sub_check"]
  /\ UNCHANGED <<restVars, appVars, self, classVars, objVars, countVars, runner,
                 stopping, abandoned,
                 ncoros, task, fut, res, sdVars, histVars>>

(* ------------------------ submit and run_async ------------------------ *)

\* a caller thread calls the module's run_async(coro):
\* `return get_executor().run_async(coro, timeout=timeout)`
RunAsync(t, kd) ==
  /\ MayCall(t)
  /\ ops' = ops + 1
  /\ ncoros' = ncoros + 1
  /\ kind' = [kind EXCEPT ![ncoros + 1] = kd]
  /\ myc' = [myc EXCEPT ![t] = ncoros + 1]
  /\ pc' = [pc EXCEPT ![t] = IF executor # 0 THEN "sub_check" ELSE "new_check1"]
  /\ self' = [self EXCEPT ![t] = executor]
  /\ res' = [res EXCEPT ![t] = NoRes]
  /\ expired' = [expired EXCEPT ![t] = FALSE]
  /\ afterSd' = [afterSd EXCEPT ![t] = sdReturned]
  /\ chkState' = [chkState EXCEPT ![t] = "none"]
  /\ UNCHANGED <<restVars, appVars, classVars, objVars, nloops, nthreads, loopVars, task,
                 fut, cur, sdVars>>

\* run_async returns r to, or raises r in, thread t, the future states
\* being f.  In a caller thread the call is over.  In the loop thread the call
\* was made by the coroutine cur[t]: a value makes the coroutine return its
\* own value, an exception propagates out of it, and the task's outcome is
\* copied to its future; the handle has then run.
FinishCall(t, r, f) ==
  IF t \in Callers
    THEN /\ res' = [res EXCEPT ![t] = r]
         /\ pc' = [pc EXCEPT ![t] = "idle"]
         /\ fut' = f
         /\ UNCHANGED <<runner, stopping, abandoned, ntodo, cur, task, myc>>
    ELSE LET o == IF r.k = "ret" THEN Ret(cur[t]) ELSE r IN
         /\ task' = [task EXCEPT ![cur[t]] = o]
         /\ fut' = [f EXCEPT ![Target(cur[t])] = o]
         /\ cur' = [cur EXCEPT ![t] = 0]
         /\ myc' = [myc EXCEPT ![t] = 0]
         /\ res' = res
         /\ EndHandle(t, LoopOf(t), ntodo[LoopOf(t)], stopping[LoopOf(t)],
                      ready[LoopOf(t)])

\* what the is_running() check of submit sees
LifeState(l) ==
  IF ~IsRunning(l) THEN "notrunning"
  ELSE IF StopScheduled(l) THEN "stopping" ELSE "running"

\* submit: `if not self._loop.is_running(): raise RuntimeError(...)`
SubmitCheckRunning(l) == IsRunning(l)

SubmitCheck(t) ==
  /\ pc[t] = "sub_check"
  /\ LET l == loopAttr[self[t]] IN
       /\ chkState' = IF t \in Callers
                        THEN [chkState EXCEPT ![t] = LifeState(l)] ELSE chkState
       /\ IF SubmitCheckRunning(l)
            THEN /\ pc' = [pc EXCEPT ![t] = "sub_sched"]
                 /\ UNCHANGED <<res, task, fut, runner, stopping, abandoned,
                                ntodo, cur, myc>>
            ELSE FinishCall(t, NotRunning, fut)
  /\ UNCHANGED <<restVars, appVars, self, classVars, objVars, countVars, ready, ncoros,
                 kind, sdVars, expired, afterSd>>

\* submit: `future = asyncio.run_coroutine_threadsafe(coro, self._loop)`:
\* self._loop is read again, the callback creating the task is put on that
\* loop's ready queue and the pending future is returned
SubmitSchedule(t) ==
  /\ pc[t] = "sub_sched"
  /\ LET l == loopAttr[self[t]] IN
       ready' = [ready EXCEPT ![l] = Append(ready[l], Handle("create", myc[t]))]
  /\ fut' = [fut EXCEPT ![myc[t]] = Pending]
  /\ pc' = [pc EXCEPT ![t] = "wait"]
  /\ UNCHANGED <<restVars, appVars, self, classVars, objVars, countVars, runner,
                 stopping, abandoned,
                 ntodo, ncoros, kind, task, myc, cur, res, sdVars, histVars>>

IsResolved(c) == fut[c].k \notin {"none", "pending"}

\* an except clause that raises a new error in place of the one it caught
PropagateWrapped(r) == IF r.k = "ret" THEN r ELSE [k |-> "exc", v |-> 0]

\* run_async: `return future.result(timeout=timeout)` returns the value;
\* `except Exception as e: raise e from None` re-raises the same object
Propagate(r) == r

\* run_async: future.result(timeout) when the future is resolved
WaitDone(t) ==
  /\ pc[t] = "wait"
  /\ IsResolved(myc[t])
  /\ FinishCall(t, Propagate(fut[myc[t]]), fut)
  /\ UNCHANGED <<restVars, appVars, self, classVars, objVars, countVars, ready, ncoros,
                 kind, sdVars, histVars>>

\* what the timeout of future.result does to the future: nothing
OnTimeout(c) == fut

\* run_async: the wait deadline elapses with the future still pending:
\* future.result raises TimeoutError, which run_async re-raises
WaitTimeout(t) ==
  /\ pc[t] = "wait"
  /\ ~IsResolved(myc[t])
  /\ expired' = IF t \in Callers THEN [expired EXCEPT ![t] = TRUE] ELSE expired
  /\ FinishCall(t, TimeoutErr, OnTimeout(myc[t]))
  /\ UNCHANGED <<restVars, appVars, self, classVars, objVars, countVars, ready, ncoros,
                 kind, sdVars, afterSd, chkState>>

(* ------------------------------ shutdown ------------------------------ *)

\* a caller thread, or the exit hook `get_executor().shutdown() if _executor
\* else None`, calls shutdown() on the global executor
Shutdown(t) ==
  /\ MayCall(t)
  /\ executor # 0
  /\ ops' = ops + 1
  /\ self' = [self EXCEPT ![t] = executor]
  /\ sdCalled' = TRUE
  /\ second' = [second EXCEPT ![t] = sdReturned]
  /\ sdEnd' = [sdEnd EXCEPT ![t] = "none"]
  /\ pc' = [pc EXCEPT ![t] = "sd_check"]
  /\ UNCHANGED <<restVars, appVars, classVars, objVars, nloops, nthreads, loopVars,
                 coroVars, joining, sdReturned, exiting, histVars>>

\* shutdown: `if hasattr(self, '_loop') and self._loop.is_running()`
ShutdownCheck(t) ==
  /\ pc[t] = "sd_check"
  /\ pc' = [pc EXCEPT ![t] = IF IsRunning(loopAttr[self[t]])
                               THEN "sd_stop" ELSE "sd_join"]
  /\ UNCHANGED <<restVars, appVars, self, classVars, objVars, countVars, loopVars,
                 coroVars, sdVars, histVars>>

\* shutdown: `self._loop.call_soon_threadsafe(self._loop.stop)`
ShutdownStop(t) ==
  /\ pc[t] = "sd_stop"
  /\ LET l == loopAttr[self[t]] IN
       ready' = [ready EXCEPT ![l] = Append(ready[l], Handle("stop", 0))]
  /\ pc' = [pc EXCEPT ![t] = "sd_join"]
  /\ UNCHANGED <<restVars, appVars, self, classVars, objVars, countVars, runner,
                 stopping, abandoned,
                 ntodo, coroVars, sdVars, histVars>>

\* the bridge as its attributes show it: stopped when the loop is not
\* running and the background thread is not alive
BridgeState(o) ==
  IF IsRunning(loopAttr[o]) \/ (threadAttr[o] # 0 /\ IsAlive(threadAttr[o]))
    THEN "running" ELSE "stopped"

\* shutdown: `if hasattr(self, '_thread') and self._thread.is_alive()`:
\* join the thread, or return at once
ShutdownJoin(t) ==
  /\ pc[t] = "sd_join"
  /\ LET k == threadAttr[self[t]] IN
       IF k # 0 /\ IsAlive(k)
         THEN /\ pc' = [pc EXCEPT ![t] = "sd_joining"]
              /\ joining' = [joining EXCEPT ![t] = k]
              /\ sdReturned' = sdReturned
              /\ sdEnd' = sdEnd
         ELSE /\ pc' = [pc EXCEPT ![t] = "idle"]
              /\ joining' = joining
              /\ sdReturned' = TRUE
              /\ sdEnd' = [sdEnd EXCEPT ![t] = BridgeState(self[t])]
  /\ UNCHANGED <<restVars, appVars, self, classVars, objVars, countVars, loopVars,
                 coroVars, sdCalled, second, exiting, histVars>>

\* shutdown: `self._thread.join(timeout=5.0)` returns because the thread ended
ShutdownJoined(t) ==
  /\ pc[t] = "sd_joining"
  /\ ~IsAlive(joining[t])
  /\ pc' = [pc EXCEPT ![t] = "idle"]
  /\ joining' = [joining EXCEPT ![t] = 0]
  /\ sdReturned' = TRUE
  /\ sdEnd' = [sdEnd EXCEPT ![t] = BridgeState(self[t])]
  /\ UNCHANGED <<restVars, appVars, self, classVars, objVars, countVars, loopVars,
                 coroVars, sdCalled, second, exiting, histVars>>

\* shutdown: `self._thread.join(timeout=5.0)` returns because 5 s have passed
\* with the thread still alive
ShutdownJoinTimeout(t) ==
  /\ pc[t] = "sd_joining"
  /\ IsAlive(joining[t])
  /\ pc' = [pc EXCEPT ![t] = "idle"]
  /\ joining' = [joining EXCEPT ![t] = 0]
  /\ sdReturned' = TRUE
  /\ sdEnd' = [sdEnd EXCEPT ![t] = BridgeState(self[t])]
  /\ UNCHANGED <<restVars, appVars, self, classVars, objVars, countVars, loopVars,
                 coroVars, sdCalled, second, exiting, histVars>>

(* ---------------------------- the exit hook --------------------------- *)

\* the hook without its condition: `get_executor().shutdown()`
HookTestAlways(e) == TRUE

\* the condition of the hook: `... if _executor else None`
HookTest(e) == e # 0

\* interpreter exit runs the registered hook
\* `lambda: get_executor().shutdown() if _executor else None` in thread t:
\* when _executor is set, get_executor() returns it (`if _executor is None`
\* fails; _executor is never reset, so both reads see it set) and shutdown()
\* is called on it; when get_executor() finds none it constructs one; when
\* the condition fails the hook does nothing
AtExit(t) ==
  /\ MayCall(t)
  /\ exiting.who = 0
  /\ ops' = ops + 1
  /\ exiting' = [who |-> t, saw |-> executor]
  /\ myc' = [myc EXCEPT ![t] = 0]
  /\ IF HookTest(executor)
       THEN /\ self' = [self EXCEPT ![t] = executor]
            /\ second' = [second EXCEPT ![t] = sdReturned]
            /\ sdEnd' = [sdEnd EXCEPT ![t] = "none"]
            /\ IF executor # 0
                 THEN /\ sdCalled' = TRUE
                      /\ pc' = [pc EXCEPT ![t] = "sd_check"]
                 ELSE /\ sdCalled' = sdCalled
                      /\ pc' = [pc EXCEPT ![t] = "new_check1"]
       ELSE /\ pc' = [pc EXCEPT ![t] = "idle"]
            /\ UNCHANGED <<self, second, sdEnd, sdCalled>>
  /\ UNCHANGED <<restVars, appVars, classVars, objVars, nloops, nthreads, loopVars,
                 ncoros,
                 kind, task, fut, cur, res, joining, sdReturned, histVars>>

(* ------------- the queue-polling AsyncExecutor of src/app.py ---------- *)

\* AsyncExecutor(): __new__ creates the instance under the class lock and
\* calls _init_executor on it: new loop, queue and stop event, flag set, and
\* the executor thread started
AppNew ==
  /\ ppc = "none"
  /\ ppc' = "started"
  /\ UNCHANGED <<restVars, bridgeVars, cbVars, endVars, queue, nitems, ikind, future, awaited, item,
                 getState, getItem, orphans, lost, stopEvent, stopReq>>

\* _run_loop: `self.loop.run_until_complete(self._process_queue())`
AppThreadRun ==
  /\ ppc = "started"
  /\ ppc' = "test"
  /\ UNCHANGED <<restVars, bridgeVars, cbVars, endVars, queue, nitems, ikind, future, awaited, item,
                 getState, getItem, orphans, lost, stopEvent, stopReq>>

\* self.loop.is_running()
AppIsRunning == ppc \in {"test", "poll", "run", "susp", "fin"}

\* submit: `future = asyncio.Future()`, `self.queue.put((future, coro,
\* callback))`, `return future` (self._initialized is set, so
\* _init_executor is not called again)
\* no test of the stop event or of the thread is made, before or after a
\* shutdown()
AppSubmit(kd, cb) ==
  /\ ppc # "none"
  /\ nitems < MaxItems
  /\ nitems' = nitems + 1
  /\ ikind' = [ikind EXCEPT ![nitems + 1] = kd]
  /\ cbk' = [cbk EXCEPT ![nitems + 1] = cb]
  /\ future' = [future EXCEPT ![nitems + 1] = Pending]
  /\ queue' = Append(queue, nitems + 1)
  /\ late' = IF sdDone THEN late \cup {nitems + 1} ELSE late
  /\ UNCHANGED <<restVars, bridgeVars, called, sdDone, ppc, awaited, item, getState,
                 getItem, orphans, lost, stopEvent, stopReq>>

\* the holder of a future cancels it
AppCancel(i) ==
  /\ future[i] = Pending
  /\ future' = [future EXCEPT ![i] = Cancelled]
  /\ UNCHANGED <<restVars, bridgeVars, cbVars, endVars, ppc, queue, nitems, ikind, awaited, item,
                 getState, getItem, orphans, lost, stopEvent, stopReq>>

\* _process_queue: `while not self._stop_event.is_set()`: when it is set the
\* coroutine returns, run_until_complete returns and the thread ends;
\* otherwise queue.get(True, 0.1) is handed to a pool thread
\* (run_in_executor) and awaited under wait_for(timeout=0.1)
PollTest ==
  /\ ppc = "test"
  /\ IF stopEvent
       THEN ppc' = "dead" /\ getState' = getState
       ELSE ppc' = "poll" /\ getState' = "blocking"
  /\ UNCHANGED <<restVars, bridgeVars, cbVars, endVars, queue, nitems, ikind, future, awaited, item,
                 getItem, orphans, lost, stopEvent, stopReq>>

\* the pool thread's queue.get takes the item at the head of the queue
WorkerGet ==
  /\ getState = "blocking"
  /\ queue # << >>
  /\ getItem' = Head(queue)
  /\ queue' = Tail(queue)
  /\ getState' = "got"
  /\ UNCHANGED <<restVars, bridgeVars, cbVars, endVars, ppc, nitems, ikind, future, awaited, item,
                 orphans, lost, stopEvent, stopReq>>

\* the result of queue.get reaches the loop before the wait_for timeout:
\* `future, coro, callback = await ...` and `result = await coro` begins
PollDeliver ==
  /\ ppc = "poll"
  /\ getState = "got"
  /\ item' = getItem
  /\ awaited' = [awaited EXCEPT ![getItem] = awaited[getItem] + 1]
  /\ getItem' = 0
  /\ getState' = "none"
  /\ ppc' = "run"
  /\ UNCHANGED <<restVars, bridgeVars, cbVars, endVars, queue, nitems, ikind, future, orphans, lost,
                 stopEvent, stopReq>>

\* queue.get raises queue.Empty after 0.1 s with the queue empty and the
\* exception reaches the loop: `except (queue.Empty, ...): continue`
PollEmpty ==
  /\ ppc = "poll"
  /\ getState = "blocking"
  /\ queue = << >>
  /\ getState' = "none"
  /\ ppc' = "test"
  /\ UNCHANGED <<restVars, bridgeVars, cbVars, endVars, queue, nitems, ikind, future, awaited, item,
                 getItem, orphans, lost, stopEvent, stopReq>>

\* what becomes of the queue.get of a poll that is given up: the asyncio
\* future that wraps it is cancelled, which cannot stop the pool thread.  A
\* get that has returned has its item discarded with the cancelled future; a
\* get that is blocking stays blocking, with nobody to receive its result.
GiveUpLost == IF getState = "got" THEN lost \cup {getItem} ELSE lost

GiveUpOrphans ==
  IF getState = "blocking" /\ orphans < MaxOrphans THEN orphans + 1 ELSE orphans

\* the wait_for timeout fires first: asyncio.TimeoutError, `continue`
PollTimeout ==
  /\ ppc = "poll"
  /\ getState = "blocking" => orphans < MaxOrphans
  /\ lost' = GiveUpLost
  /\ orphans' = GiveUpOrphans
  /\ getState' = "none"
  /\ getItem' = 0
  /\ ppc' = "test"
  /\ UNCHANGED <<restVars, bridgeVars, cbVars, endVars, queue, nitems, ikind, future, awaited, item,
                 stopEvent, stopReq>>

\* a queue.get whose poll was given up takes the item at the head of the
\* queue: its result goes to the cancelled future
OrphanGet ==
  /\ orphans > 0
  /\ queue # << >>
  /\ lost' = lost \cup {Head(queue)}
  /\ queue' = Tail(queue)
  /\ orphans' = orphans - 1
  /\ UNCHANGED <<restVars, bridgeVars, cbVars, endVars, ppc, nitems, ikind, future, awaited, item,
                 getState, getItem, stopEvent, stopReq>>

\* a queue.get whose poll was given up times out on the empty queue
OrphanEmpty ==
  /\ orphans > 0
  /\ queue = << >>
  /\ orphans' = orphans - 1
  /\ UNCHANGED <<restVars, bridgeVars, cbVars, endVars, ppc, queue, nitems, ikind, future, awaited,
                 item, getState, getItem, lost, stopEvent, stopReq>>

\* `result = await coro`: the coroutine reaches an await of its own and is
\* suspended; _process_queue, which awaits it, is suspended with it
AppSuspend ==
  /\ ppc = "run"
  /\ ikind[item] = "suspending"
  /\ ppc' = "susp"
  /\ UNCHANGED <<restVars, bridgeVars, cbVars, endVars, queue, nitems, ikind, future, awaited, item,
                 getState, getItem, orphans, lost, stopEvent, stopReq>>

\* what the coroutine was waiting for happens: it is resumed
AppResume ==
  /\ ppc = "susp"
  /\ ppc' = "fin"
  /\ UNCHANGED <<restVars, bridgeVars, cbVars, endVars, queue, nitems, ikind, future, awaited, item,
                 getState, getItem, orphans, lost, stopEvent, stopReq>>

\* a resolution that does not look at the state of the future
AppResolveOverwrite(f, o) == o

\* `if future.done(): continue` / `future.set_result(result)` and
\* `if not future.done(): future.set_exception(e)`: the outcome is set on a
\* pending future only (set_result on a done future raises InvalidStateError,
\* which the except clause finds with the future done)
AppResolve(f, o) == IF f = Pending THEN o ELSE f

\* what `await coro` can end with
AppOutcomes(i) ==
  IF ikind[i] = "cancelling" THEN {CancelledErr} ELSE {Ret(i), Exc(i)}

\* a callback invoked whatever the coroutine ended with
CallbackRunsAlways(f, o, cb) == cb # "absent"

\* `if callback: callback(result)` is reached after `future.set_result(
\* result)` only: the coroutine returned and the future was not done
CallbackRuns(f, o, cb) == f = Pending /\ o.k = "ret" /\ cb # "absent"

\* an exception of the callback reaches `except Exception as e: if not
\* future.done(): future.set_exception(e)`
AfterCallback(f, ran, cb) ==
  IF ran /\ cb = "raises" THEN AppResolve(f, CallbackExc) ELSE f

\* `except Exception` (the inner and the outer one) catches what the
\* coroutine or the callback raised and the while loop goes round;
\* asyncio.CancelledError is a BaseException, passes both clauses and ends
\* _process_queue, run_until_complete and the thread
AppSurvives(o) == o # CancelledErr

\* the coroutine returns or raises: its outcome is set on the future, the
\* callback is invoked, and the loop of _process_queue goes round
AppFinish ==
  /\ \/ ppc = "run" /\ ikind[item] # "suspending"
     \/ ppc = "fin"
  /\ \E o \in AppOutcomes(item) :
       IF AppSurvives(o)
         THEN /\ future' =
                   [future EXCEPT ![item] =
                      AfterCallback(AppResolve(future[item], o),
                                    CallbackRuns(future[item], o, cbk[item]),
                                    cbk[item])]
              /\ called' =
                   [called EXCEPT ![item] =
                      IF CallbackRuns(future[item], o, cbk[item])
                        THEN called[item] + 1 ELSE called[item]]
              /\ ppc' = "test"
         ELSE /\ ppc' = "dead"
              /\ UNCHANGED <<future, called>>
  /\ item' = 0
  /\ UNCHANGED <<restVars, bridgeVars, cbk, endVars, queue, nitems, ikind, awaited,
                 getState, getItem, orphans, lost, stopEvent, stopReq>>

\* shutdown: `self._stop_event.set()`; `if ... self.loop.is_running():
\* self.loop.call_soon_threadsafe(self.loop.stop)`; then the bounded join
AppShutdown ==
  /\ ppc # "none"
  /\ ~stopEvent
  /\ stopEvent' = TRUE
  /\ stopReq' = AppIsRunning
  /\ UNCHANGED <<restVars, bridgeVars, cbVars, endVars, ppc, queue, nitems, ikind, future, awaited,
                 item, getState, getItem, orphans, lost>>

\* shutdown returns: `self.thread.join(timeout=5.0)` has seen the thread end
\* or has waited its 5 s
AppShutdownReturn ==
  /\ stopEvent
  /\ ~sdDone
  /\ sdDone' = TRUE
  /\ UNCHANGED <<restVars, bridgeVars, cbVars, late, ppc, queue, nitems, ikind, future,
                 awaited, item, getState, getItem, orphans, lost, stopEvent,
                 stopReq>>

\* the loop runs loop.stop() while _process_queue is suspended at an await:
\* run_until_complete raises RuntimeError (the future it waits for is not
\* done) and the thread ends; a poll in progress is given up
AppLoopStop ==
  /\ stopReq
  /\ ppc \in {"poll", "susp"}
  /\ ppc' = "dead"
  /\ stopReq' = FALSE
  /\ lost' = GiveUpLost
  /\ orphans' = GiveUpOrphans
  /\ getState' = "none"
  /\ getItem' = 0
  /\ UNCHANGED <<restVars, bridgeVars, cbVars, endVars, queue, nitems, ikind, future, awaited, item,
                 stopEvent>>

(* --------------- Chatbot.process_query (src/ai_model.py) -------------- *)

QueryChars == {"f", "F", "l", "y", " "}

Queries == UNION {[1..n -> QueryChars] : n \in 0..MaxQueryLen}

\* str.lower() on the characters of the model
LowerChar(c) == IF c = "F" THEN "f" ELSE c

Lower(q) == [n \in 1..Len(q) |-> LowerChar(q[n])]

\* `keyword in query_lower`: w is a substring of q
Contains(q, w) ==
  \E n \in 0..(Len(q) - Len(w)) : \A m \in 1..Len(w) : q[n + m] = w[m]

\* flight_keywords of _handle_flight_query
FlightKeywords ==
  { <<"f", "l", "i", "g", "h", "t">>,
    <<"f", "l", "i", "g", "h", "t", "s">>,
    <<"a", "i", "r", "l", "i", "n", "e">>,
    <<"a", "i", "r", "p", "o", "r", "t">>,
    <<"s", "c", "h", "e", "d", "u", "l", "e">>,
    <<"t", "i", "m", "e", "t", "a", "b", "l", "e">>,
    <<"d", "e", "p", "a", "r", "t", "u", "r", "e">>,
    <<"a", "r", "r", "i", "v", "a", "l">>,
    <<"a", "i", "r", "p", "l", "a", "n", "e">>,
    <<"a", "i", "r", "c", "r", "a", "f", "t">>,
    <<"f", "l", "y">>,
    <<"f", "l", "y", "i", "n", "g">>,
    <<"p", "l", "a", "n", "e">> }

\* a keyword test made on the query as it was typed
IsFlightQueryExact(q) == \E w \in FlightKeywords : Contains(q, w)

\* `query_lower = query.lower()`, `any(keyword in query_lower for ...)`
IsFlightQuery(q) == \E w \in FlightKeywords : Contains(Lower(q), w)

\* `not query or query.strip() == ""`
Blank(q) == \A n \in 1..Len(q) : q[n] = " "

\* what the flight service gives for a flight query: flights, no flight, an
\* 'error' entry, or an exception
FlightResults == {"data", "nodata", "error", "raise"}

\* the four dicts _handle_flight_query returns for a flight query; none has
\* an 'error' key
FlightReply(fl) == Reply(<<"flight", fl>>, FALSE, FALSE)

FlightReplies == {FlightReply(fl) : fl \in FlightResults}

\* the other dicts of _aprocess_query
AnalysisReply == Reply(<<"analysis">>, FALSE, FALSE)
ImageError == Reply(<<"image_error">>, TRUE, FALSE)
ChainError == Reply(<<"chain_error">>, TRUE, TRUE)
Answer == Reply(<<"answer">>, FALSE, FALSE)
Fallback == Reply(<<"fallback">>, FALSE, TRUE)

\* the dict of the except clause of process_query
PqError == Reply(<<"pq_error">>, TRUE, TRUE)

\* an except clause that catches RuntimeError only
PqCatchesRuntimeError(e) == e = "notrunning"

\* `except Exception as e`: RuntimeError("Event loop is not running") and
\* the TimeoutError of future.result(timeout=120) both derive from Exception
PqCatches(e) == e \in {"notrunning", "timeout"}

PqOutcome(e) == IF PqCatches(e) THEN PqError ELSE RaisedReply

\* process_query(query, image_data): run_async(self.process_query_async(...),
\* timeout=120).  submit raises RuntimeError when the loop is not running
\* (up = FALSE) and the coroutine is never started; otherwise the coroutine
\* is scheduled and the caller waits.
ProcessQuery(q, img, up) ==
  /\ qpc = "idle"
  /\ ~waiting
  /\ memory < MaxExchanges
  /\ query' = q
  /\ image' = img
  /\ memStart' = memory
  /\ did' = [img |-> FALSE, chain |-> FALSE]
  /\ result' = NoReply
  /\ IF up
       THEN /\ qpc' = "flight"
            /\ waiting' = TRUE
            /\ pqFail' = "none"
            /\ pqReply' = NoReply
       ELSE /\ qpc' = "idle"
            /\ waiting' = FALSE
            /\ pqFail' = "notrunning"
            /\ pqReply' = PqOutcome("notrunning")
  /\ UNCHANGED <<bridgeVars, appVars, botVars, uiVars, memory>>

\* _aprocess_query: `flight_response = await self._handle_flight_query(query)`
\* and `if flight_response: return flight_response`
HandleFlightQuery(fl) ==
  /\ qpc = "flight"
  /\ IF IsFlightQuery(query)
       THEN /\ result' = FlightReply(fl)
            /\ qpc' = "ret"
       ELSE /\ result' = result
            /\ qpc' = IF image THEN "image" ELSE "chain"
  /\ UNCHANGED <<bridgeVars, appVars, botVars, uiVars, query, image, memory,
                 memStart, did, waiting, pqFail, pqReply>>

\* `if image_data:` _process_image and _analyze_image; an exception gives the
\* image error dict, a blank query the analysis alone, otherwise the analysis
\* is added to the query, which goes on to the QA chain
ProcessImage(ok) ==
  /\ qpc = "image"
  /\ did' = [did EXCEPT !.img = TRUE]
  /\ IF ~ok
       THEN result' = ImageError /\ qpc' = "ret"
       ELSE IF Blank(query)
              THEN result' = AnalysisReply /\ qpc' = "ret"
              ELSE result' = result /\ qpc' = "chain"
  /\ UNCHANGED <<bridgeVars, appVars, botVars, uiVars, query, image, memory,
                 memStart, waiting, pqFail, pqReply>>

ChainResults == {"answer", "fallback", "raise"}

\* a chain whose failure also leads to the update of the chat history
ChainNextAlways(out) == "save"

\* after `result = await self.qa_chain.ainvoke(inputs)`: the except clause
\* returns the error dict; otherwise the response is formatted and the chat
\* history updated
ChainNext(out) == IF out = "raise" THEN "ret" ELSE "save"

\* `result = await self.qa_chain.ainvoke(inputs)` and the formatting of the
\* response (the fallback dict when formatting fails)
InvokeChain(out) ==
  /\ qpc = "chain"
  /\ did' = [did EXCEPT !.chain = TRUE]
  /\ result' = IF out = "raise" THEN ChainError
               ELSE IF out = "answer" THEN Answer ELSE Fallback
  /\ qpc' = ChainNext(out)
  /\ UNCHANGED <<bridgeVars, appVars, botVars, uiVars, query, image, memory,
                 memStart, waiting, pqFail, pqReply>>

\* `self.memory.save_context(...)` in its own try: an exception of
\* save_context is printed and the response returned all the same
SaveContext(ok) ==
  /\ qpc = "save"
  /\ memory' = IF ok THEN memory + 1 ELSE memory
  /\ qpc' = "ret"
  /\ UNCHANGED <<bridgeVars, appVars, botVars, uiVars, query, image,
                 memStart, did, result, waiting, pqFail, pqReply>>

\* the coroutine returns its dict; a caller still waiting in
\* future.result(timeout=120) gets it and process_query returns it
CoroutineReturn ==
  /\ qpc = "ret"
  /\ qpc' = "idle"
  /\ waiting' = FALSE
  /\ pqReply' = IF waiting THEN result ELSE pqReply
  /\ UNCHANGED <<bridgeVars, appVars, botVars, uiVars, query, image, memory,
                 memStart, did, result, pqFail>>

\* future.result(timeout=120) raises TimeoutError with the coroutine still
\* running on the loop (it is not cancelled and runs on)
PqTimeout ==
  /\ waiting
  /\ qpc # "idle"
  /\ waiting' = FALSE
  /\ pqFail' = "timeout"
  /\ pqReply' = PqOutcome("timeout")
  /\ UNCHANGED <<bridgeVars, appVars, botVars, uiVars, qpc, query, image,
                 memory, memStart, did, result>>

(* -------------------- get_chatbot (src/ai_model.py) ------------------- *)

\* `if _chatbot_instance is None:` with no lock held
GetChatbot(t) ==
  /\ gpc[t] = "idle"
  /\ ncalls < MaxBotCalls
  /\ ncalls' = ncalls + 1
  /\ got' = [got EXCEPT ![t] = 0]
  /\ gpc' = [gpc EXCEPT ![t] = IF chatbotInstance = 0 THEN "create"
                                ELSE "return"]
  /\ UNCHANGED <<bridgeVars, appVars, chatVars, uiVars, chatbotInstance,
                 nbots>>

\* the try block: the API key test, genai.configure and
\* `_chatbot_instance = Chatbot()`; an exception is printed and raised again,
\* with _chatbot_instance untouched
CreateChatbot(t, ok) ==
  /\ gpc[t] = "create"
  /\ IF ok
       THEN /\ nbots' = nbots + 1
            /\ chatbotInstance' = nbots + 1
            /\ gpc' = [gpc EXCEPT ![t] = "return"]
            /\ got' = got
       ELSE /\ got' = [got EXCEPT ![t] = -1]
            /\ gpc' = [gpc EXCEPT ![t] = "idle"]
            /\ UNCHANGED <<nbots, chatbotInstance>>
  /\ UNCHANGED <<bridgeVars, appVars, chatVars, uiVars, ncalls>>

\* `return _chatbot_instance`: the global is read again
ReturnChatbot(t) ==
  /\ gpc[t] = "return"
  /\ got' = [got EXCEPT ![t] = chatbotInstance]
  /\ gpc' = [gpc EXCEPT ![t] = "idle"]
  /\ UNCHANGED <<bridgeVars, appVars, chatVars, uiVars, chatbotInstance,
                 nbots, ncalls>>

(* ------------------ the Streamlit script (src/app.py) ----------------- *)

\* sessions a URL can carry
UrlSessions ==
  {NoUrl, Url("invalid", Absent, Absent, Absent)} \cup
  {Url("valid", m, s, u) :
     m \in {Absent, Val(<< >>), Val(<<"old">>)},
     s \in {Absent, Val(<<"oldsource">>)},
     u \in {Absent, Val(<<"oldimage">>)}}

FormChars == {"a", " "}

FormTexts == UNION {[1..n -> FormChars] : n \in 0..MaxFormLen}

\* json.dumps(session_data) raises TypeError on the UploadedFile objects the
\* sidebar stores in uploaded_images
Serializable(u) == \A n \in 1..Len(u.v) : u.v[n] # "file"

\* `st.session_state.get(key, default)` / `saved_session.get(key, default)`
Get(f, default) == IF f.has THEN f.v ELSE default

\* save_session_to_url: the three values, with [] and {} for missing keys,
\* encoded into the URL
SaveSessionToUrl(m, s, u) ==
  Url("valid", Val(Get(m, << >>)), Val(Get(s, << >>)), Val(Get(u, << >>)))

\* load_session_from_url followed by `if saved_session:`: a session was
\* decoded and is not the empty dict
HasSaved(x) ==
  x.state = "valid" /\ (x.messages.has \/ x.sources.has \/ x.uploaded.has)

\* `'messages' not in st.session_state or not st.session_state.messages`
NoMessages(m) == ~m.has \/ m.v = << >>

\* a session of the URL loaded whatever the session state holds
LoadsSavedAlways(x, m) == HasSaved(x)

\* `if saved_session:` and `if 'messages' not in st.session_state or not
\* st.session_state.messages:`
LoadsSaved(x, m) == HasSaved(x) /\ NoMessages(m)

\* the values after the first block of init_session_state
Loaded(f, savedf, x, m) ==
  IF LoadsSaved(x, m) THEN Val(Get(savedf, << >>)) ELSE f

\* the welcome message for a session without messages
WithWelcome(m) == IF NoMessages(m) THEN Val(<<"welcome">>) ELSE m

\* `if key not in st.session_state: st.session_state[key] = {}`
WithDefault(f) == IF f.has THEN f ELSE Val(<< >>)

\* a browser opens the application with some URL: a new session, whose
\* session state is empty
OpenSession(u) ==
  /\ upc = "new"
  /\ url' = u
  /\ upc' = "init"
  /\ UNCHANGED <<bridgeVars, appVars, chatVars, botVars, messages, sources,
                 uploaded, lastSubmit, nsubmits, handled, seen>>

\* the page is loaded again with the URL it has: a new session
Reload ==
  /\ upc \in {"body", "failed"}
  /\ upc' = "init"
  /\ messages' = Absent
  /\ sources' = Absent
  /\ uploaded' = Absent
  /\ lastSubmit' = NoSubmit
  /\ handled' = [done |-> FALSE, text |-> << >>, last |-> NoSubmit,
                 processed |-> FALSE]
  /\ UNCHANGED <<bridgeVars, appVars, chatVars, botVars, url, nsubmits, seen>>

\* the script runs again in the same session (a widget was used)
Rerun ==
  /\ upc = "body"
  /\ upc' = "init"
  /\ UNCHANGED <<bridgeVars, appVars, chatVars, botVars, messages, sources,
                 uploaded, url, lastSubmit, nsubmits, handled, seen>>

\* init_session_state, save_session_to_url at its end included; when
\* json.dumps raises, the exception leaves init_session_state and main
InitSessionState ==
  /\ upc = "init"
  /\ seen' = [msgs |-> messages, url |-> url]
  /\ messages' = WithWelcome(Loaded(messages, url.messages, url, messages))
  /\ sources' = WithDefault(Loaded(sources, url.sources, url, messages))
  /\ uploaded' = WithDefault(Loaded(uploaded, url.uploaded, url, messages))
  /\ IF Serializable(uploaded')
       THEN /\ url' = SaveSessionToUrl(messages', sources', uploaded')
            /\ upc' = "body"
       ELSE /\ url' = url
            /\ upc' = "failed"
  /\ UNCHANGED <<bridgeVars, appVars, chatVars, botVars, lastSubmit,
                 nsubmits, handled>>

\* process_user_input: save_session_to_url first (outside the try), then the
\* user message and the reply of the chatbot (or the error message) are
\* appended
ProcessedMessages(m) == Val(Append(Append(Get(m, << >>), "user"), "bot"))

\* a quick action button of the sidebar: process_user_input(text)
QuickAction ==
  /\ upc = "body"
  /\ Len(messages.v) + 2 <= MaxMsgs
  /\ IF Serializable(uploaded)
       THEN /\ url' = SaveSessionToUrl(messages, sources, uploaded)
            /\ messages' = ProcessedMessages(messages)
            /\ upc' = upc
       ELSE /\ upc' = "failed"
            /\ UNCHANGED <<url, messages>>
  /\ UNCHANGED <<bridgeVars, appVars, chatVars, botVars, sources, uploaded,
                 lastSubmit, nsubmits, handled, seen>>

\* the file uploader of the sidebar: `st.session_state.uploaded_images =
\* uploaded_files`
UploadFiles ==
  /\ upc = "body"
  /\ uploaded' = Val(<<"file">>)
  /\ UNCHANGED <<bridgeVars, appVars, chatVars, botVars, upc, messages,
                 sources, url, lastSubmit, nsubmits, handled, seen>>

\* the Clear Chat button: messages replaced by the notice, st.rerun()
ClearChat ==
  /\ upc = "body"
  /\ messages' = Val(<<"cleared">>)
  /\ upc' = "init"
  /\ UNCHANGED <<bridgeVars, appVars, chatVars, botVars, sources, uploaded,
                 url, lastSubmit, nsubmits, handled, seen>>

\* `user_input.strip()` is not empty
NonBlank(m) == \E n \in 1..Len(m) : m[n] # " "

\* `if 'last_submit' not in st.session_state: ... = None`
LastSubmit(l) == IF l.set = "absent" THEN NoneSubmit ELSE l

\* a test that takes every submission for a new one
IsNewSubmissionAlways(m, l) == TRUE

\* `if user_input != st.session_state.last_submit:`
IsNewSubmission(m, l) == l.set # "text" \/ m # l.v

\* the form is submitted with text m: the handling of the submission in main
FormSubmit(m) ==
  /\ upc = "body"
  /\ nsubmits < MaxSubmits
  /\ Len(messages.v) + 2 <= MaxMsgs
  /\ nsubmits' = nsubmits + 1
  /\ IF NonBlank(m) /\ IsNewSubmission(m, LastSubmit(lastSubmit))
       THEN /\ lastSubmit' = Text(m)
            /\ handled' = [done |-> TRUE, text |-> m,
                           last |-> LastSubmit(lastSubmit),
                           processed |-> TRUE]
            /\ IF Serializable(uploaded)
                 THEN /\ url' = SaveSessionToUrl(messages, sources, uploaded)
                      /\ messages' = ProcessedMessages(messages)
                      /\ uploaded' = Val(<< >>)
                      /\ upc' = "init"
                 ELSE /\ upc' = "failed"
                      /\ UNCHANGED <<url, messages, uploaded>>
       ELSE /\ lastSubmit' = LastSubmit(lastSubmit)
            /\ handled' = [done |-> TRUE, text |-> m,
                           last |-> LastSubmit(lastSubmit),
                           processed |-> FALSE]
            /\ uploaded' = IF NonBlank(m) THEN Val(<< >>) ELSE uploaded
            /\ UNCHANGED <<url, messages, upc>>
  /\ UNCHANGED <<bridgeVars, appVars, chatVars, botVars, sources, seen>>

(* --------------------------- specification ---------------------------- *)

Kinds == {"plain", "nested"}

CallerStep(t) ==
  \/ GetExecutor(t)
  \/ NewCheck1(t)
  \/ NewLock(t)
  \/ NewAlloc(t)
  \/ NewSetFlag(t)
  \/ InitCheck(t)
  \/ InitLoop(t)
  \/ InitFlag(t)
  \/ InitStart(t)
  \/ GetExecutorAssign(t)
  \/ \E kd \in Kinds : RunAsync(t, kd)
  \/ Shutdown(t)
  \/ ShutdownCheck(t)
  \/ ShutdownStop(t)
  \/ ShutdownJoin(t)
  \/ ShutdownJoined(t)
  \/ ShutdownJoinTimeout(t)

LoopThreadStep(k) ==
  \/ ThreadRun(k)
  \/ LoopStop(k)
  \/ LoopCreate(k)
  \/ LoopStepDone(k)
  \/ LoopStepNested(k)

SubmitStep(t) ==
  \/ SubmitCheck(t)
  \/ SubmitSchedule(t)
  \/ WaitDone(t)
  \/ WaitTimeout(t)

\* The general specification: NumCallers caller threads making any calls.
Next ==
  \/ \E t \in 1..NumCallers : CallerStep(t)
  \/ \E k \in LoopThreads : LoopThreadStep(k)
  \/ \E t \in Threads : SubmitStep(t)

Spec == Init /\ [][Next]_vars

\* The start-up specification: one more caller thread, no shutdown() and no
\* coroutine that calls back into the bridge.
StartupCallerStep(t) ==
  \/ GetExecutor(t)
  \/ NewCheck1(t)
  \/ NewLock(t)
  \/ NewAlloc(t)
  \/ NewSetFlag(t)
  \/ InitCheck(t)
  \/ InitLoop(t)
  \/ InitFlag(t)
  \/ InitStart(t)
  \/ GetExecutorAssign(t)
  \/ RunAsync(t, "plain")

StartupLoopStep(k) ==
  \/ ThreadRun(k)
  \/ LoopCreate(k)
  \/ LoopStepDone(k)

NextStartup ==
  \/ \E t \in Callers : StartupCallerStep(t)
  \/ \E k \in LoopThreads : StartupLoopStep(k)
  \/ \E t \in Callers : SubmitStep(t)

SpecStartup == Init /\ [][NextStartup]_vars

\* The lifecycle specification: NumCallers caller threads, coroutines that
\* return, raise or time out on an await of their own, shutdown() and the
\* exit hook; no coroutine calls back into the bridge.
ExitKinds == {"plain", "timing"}

ExitCallerStep(t) ==
  \/ GetExecutor(t)
  \/ NewCheck1(t)
  \/ NewLock(t)
  \/ NewAlloc(t)
  \/ NewSetFlag(t)
  \/ InitCheck(t)
  \/ InitLoop(t)
  \/ InitFlag(t)
  \/ InitStart(t)
  \/ GetExecutorAssign(t)
  \/ \E kd \in ExitKinds : RunAsync(t, kd)
  \/ Shutdown(t)
  \/ ShutdownCheck(t)
  \/ ShutdownStop(t)
  \/ ShutdownJoin(t)
  \/ ShutdownJoined(t)
  \/ ShutdownJoinTimeout(t)
  \/ AtExit(t)

ExitLoopStep(k) ==
  \/ ThreadRun(k)
  \/ LoopStop(k)
  \/ LoopCreate(k)
  \/ LoopStepDone(k)

NextExit ==
  \/ \E t \in 1..NumCallers : ExitCallerStep(t)
  \/ \E k \in LoopThreads : ExitLoopStep(k)
  \/ \E t \in 1..NumCallers : SubmitStep(t)

SpecExit == Init /\ [][NextExit]_vars

\* The specification of the queue-polling executor of src/app.py.
\* Coroutines that return or raise at once or after an await of their own,
\* submitted without callback.
ItemKinds == {"plain", "suspending"}

NextApp ==
  \/ AppNew
  \/ AppThreadRun
  \/ \E kd \in ItemKinds : AppSubmit(kd, "absent")
  \/ \E i \in Items : AppCancel(i)
  \/ PollTest
  \/ WorkerGet
  \/ PollDeliver
  \/ PollEmpty
  \/ PollTimeout
  \/ OrphanGet
  \/ OrphanEmpty
  \/ AppSuspend
  \/ AppResume
  \/ AppFinish
  \/ AppShutdown
  \/ AppShutdownReturn
  \/ AppLoopStop

SpecApp == Init /\ [][NextApp]_vars

\* The task specification of the queue-polling executor: coroutines that
\* return or raise an Exception or raise asyncio.CancelledError, submitted
\* with or without a callback, which returns or raises.
TaskKinds == {"plain", "cancelling"}

Callbacks == {"absent", "returns", "raises"}

NextTasks ==
  \/ AppNew
  \/ AppThreadRun
  \/ \E kd \in TaskKinds, cb \in Callbacks : AppSubmit(kd, cb)
  \/ \E i \in Items : AppCancel(i)
  \/ PollTest
  \/ WorkerGet
  \/ PollDeliver
  \/ PollEmpty
  \/ PollTimeout
  \/ OrphanGet
  \/ OrphanEmpty
  \/ AppFinish
  \/ AppShutdown
  \/ AppShutdownReturn
  \/ AppLoopStop

SpecTasks == Init /\ [][NextTasks]_vars

\* The specification of Chatbot.process_query: one call at a time, any query
\* and image, any outcome of the services it uses.
NextChat ==
  \/ \E q \in Queries, img \in BOOLEAN, up \in BOOLEAN : ProcessQuery(q, img, up)
  \/ \E fl \in FlightResults : HandleFlightQuery(fl)
  \/ \E ok \in BOOLEAN : ProcessImage(ok)
  \/ \E out \in ChainResults : InvokeChain(out)
  \/ \E ok \in BOOLEAN : SaveContext(ok)
  \/ CoroutineReturn
  \/ PqTimeout

SpecChat == Init /\ [][NextChat]_vars

\* The specification of get_chatbot: NumBotThreads threads (Streamlit runs
\* the script of every session in a thread of its own).
NextBots ==
  \/ \E t \in BotThreads : GetChatbot(t)
  \/ \E t \in BotThreads, ok \in BOOLEAN : CreateChatbot(t, ok)
  \/ \E t \in BotThreads : ReturnChatbot(t)

SpecBots == Init /\ [][NextBots]_vars

\* The specification of the Streamlit script: one browser, which opens and
\* reloads the page, uses the sidebar and submits the chat form.
NextUi ==
  \/ \E u \in UrlSessions : OpenSession(u)
  \/ Reload
  \/ Rerun
  \/ InitSessionState
  \/ QuickAction
  \/ UploadFiles
  \/ ClearChat
  \/ \E m \in FormTexts : FormSubmit(m)

SpecUi == Init /\ [][NextUi]_vars

(* ------------------------------- claims ------------------------------- *)

\* a caller thread whose run_async call is over
RunOver(t) == pc[t] = "idle" /\ myc[t] # 0 /\ res[t].k # "none"

\* nothing is left to run: every caller is between calls or waiting on a
\* pending future, every background thread has ended or idles on an empty
\* ready queue
Quiescent ==
  /\ \A t \in Callers :
       \/ pc[t] \in {"fresh", "idle"}
       \/ pc[t] = "wait" /\ ~IsResolved(myc[t])
  /\ \A k \in LoopThreads :
       \/ pc[k] \in {"none", "dead"}
       \/ pc[k] = "loop" /\ ready[LoopOf(k)] = << >>

\* C1: every get_executor()/AsyncExecutor() call returns the same object and
\* no second AsyncExecutor object is ever allocated, however the first calls
\* of several threads interleave.
C1_SingleInstance ==
  /\ nobj <= 1
  /\ \A t \in Threads : self[t] # 0 => self[t] = instance
  /\ executor # 0 => executor = instance

\* three threads raced through their first call and hold the same object
C1_Witness ==
  /\ \A t \in Callers : pc[t] = "idle" /\ self[t] = instance
  /\ instance # 0
  /\ nloops >= 2

\* C2: the body of __init__ runs at most once: one event loop is created and
\* one background thread is started, under every interleaving of first calls.
C2_InitOnce == nloops <= 1 /\ nthreads <= 1

\* C3: a run_async call that returns a value returns the value of its own
\* coroutine, and when its coroutine returned a value before the wait
\* deadline elapsed the call returns that value.
C3_ReturnsResult ==
  \A t \in Callers :
    RunOver(t) =>
      /\ res[t].k = "ret" => res[t] = Ret(myc[t]) /\ task[myc[t]] = res[t]
      /\ (task[myc[t]].k = "ret" /\ ~expired[t]) => res[t] = task[myc[t]]

\* two coroutines are in flight at once: the caller of the later one has got
\* its value while the caller of the earlier one still waits
C3_Witness ==
  /\ RunOver(2) /\ res[2] = Ret(myc[2])
  /\ pc[1] = "wait" /\ fut[myc[1]] = Pending
  /\ myc[1] < myc[2]

C5_RejectedAfterShutdown ==
  \A t \in Callers :
    (afterSd[t] /\ myc[t] # 0) =>
      /\ pc[t] \notin {"sub_sched", "wait"}
      /\ res[t].k \in {"none", "notrunning"}

\* C6: a submit whose is_running() check happens while a stop is scheduled
\* on the still running loop is rejected with the not-running error.
C6_RejectedWhileStopping ==
  \A t \in Callers :
    chkState[t] = "stopping" => pc[t] = "idle" /\ res[t] = NotRunning

\* C7: run_async called by a coroutine on the loop thread fails fast: the loop
\* thread never waits on a future whose task is queued on the loop it runs.
C7_NoReentrantWait ==
  \A k \in LoopThreads :
    pc[k] = "wait" =>
      \A i \in 1..Len(ready[LoopOf(k)]) : ready[LoopOf(k)][i].c # myc[k]

\* C8: submit raises the not-running error only if shutdown() has been called.
C8_NotRunningOnlyAfterShutdown ==
  \A t \in Callers : res[t] = NotRunning => sdCalled

\* C9: with no shutdown() call, no accepted coroutine is dropped: once nothing
\* is left to run, every future submit returned is resolved.
C9_NoneDropped ==
  (Quiescent /\ ~sdCalled) => \A c \in Coros : fut[c] # Pending

\* C10: with no shutdown() call, a coroutine whose caller timed out still runs
\* to completion or failure: once nothing is left to run, it has produced its
\* outcome.
C10_RunsAfterTimeout ==
  (Quiescent /\ ~sdCalled) =>
    \A t \in Callers :
      (pc[t] = "idle" /\ myc[t] # 0 /\ expired[t]) => task[myc[t]].k # "none"

\* C11: the error of an elapsed wait deadline is distinguishable from every
\* failure of the coroutine: a caller observes the wait-timeout error only
\* when its wait deadline elapsed.
C11_TimeoutDistinct ==
  \A t \in Callers : (RunOver(t) /\ res[t] = TimeoutErr) => expired[t]

\* C12: shutdown() is idempotent: a shutdown() call that begins after a
\* shutdown() has returned schedules no stop, joins no thread and returns
\* with the bridge stopped.
C12_ShutdownIdempotent ==
  \A t \in Callers :
    second[t] => pc[t] \notin {"sd_stop", "sd_joining"} /\ sdEnd[t] # "running"

\* C13: when shutdown() returns the bridge is stopped: the loop is not
\* running and the background thread has ended.
C13_StoppedOnReturn == \A t \in Callers : sdEnd[t] # "running"

\* the handles of coroutines other than c queued on loop l
OtherHandles(l, c) == SelectSeq(ready[l], LAMBDA h : h.c # c)

\* what a step in which coroutine c raises leaves alone: the outcomes and
\* futures of the other coroutines, their queued handles, and the loop thread,
\* which ends only if stop() had run in the iteration
RaiseIsolated(c) ==
  /\ fut'[c] = task'[c]
  /\ \A d \in Coros \ {c} : task'[d] = task[d] /\ fut'[d] = fut[d]
  /\ \A l \in Loops : OtherHandles(l, c)' = OtherHandles(l, c)
  /\ \A k \in LoopThreads :
       (pc[k] \in {"loop", "wait", "sub_check"} /\ pc'[k] = "dead")
         => stopping[LoopOf(k)]

C15_SingleLoopThread ==
  /\ \A k1, k2 \in LoopThreads : (cur[k1] # 0 /\ cur[k2] # 0) => k1 = k2
  /\ \A k \in LoopThreads : cur[k] # 0 => runner[LoopOf(k)] = k

\* C16: a coroutine that was pending when shutdown stopped the loop is
\* abandoned: it produces no outcome afterwards, its future is never
\* resolved, and its caller receives neither a value nor its exception.
C16_Abandoned ==
  \A c \in abandoned :
    /\ task[c] = NoRes
    /\ ~IsResolved(c)
    /\ \A t \in Callers : myc[t] = c => res[t].k \in {"none", "timeout"}

\* the positions of a thread inside AsyncExecutor() and get_executor()'s
\* assignment
Constructing ==
  {"new_check1", "new_lock", "new_alloc", "new_setflag", "init_check",
   "init_loop", "init_flag", "init_start", "ge_assign"}

\* C17: the exit hook shuts the global executor down if and only if one had
\* been created through get_executor(), and it never constructs an executor:
\* the hook's thread is never inside the constructor, calls shutdown() on the
\* executor it saw when there was one and does nothing when there was none.
C17_ExitHook ==
  exiting.who # 0 =>
    /\ pc[exiting.who] \notin Constructing
    /\ exiting.saw # 0 =>
         /\ sdCalled
         /\ self[exiting.who] = exiting.saw
         /\ pc[exiting.who] = "idle" => sdEnd[exiting.who] # "none"
    /\ exiting.saw = 0 =>
         /\ pc[exiting.who] = "idle"
         /\ sdEnd[exiting.who] = "none"

\* the hook found the executor another call had created, shut it down and
\* returned with the loop stopped; no loop or thread was added
C17_Witness ==
  /\ exiting.who # 0 /\ exiting.saw # 0
  /\ pc[exiting.who] = "idle"
  /\ sdEnd[exiting.who] = "stopped"
  /\ nloops = 1 /\ nthreads = 1

\* a future that holds a result or an exception, or is cancelled
Done(f) == f.k \notin {"none", "pending"}

\* C18: a task is resolved at most once: once the future of an item of the
\* queue-polling executor, or the future submit returned for a coroutine of
\* the bridge, is done, no step changes it.
C18_ResolvedOnce ==
  [][/\ \A i \in Items : Done(future[i]) => future'[i] = future[i]
     /\ \A c \in Coros : IsResolved(c) => fut'[c] = fut[c]]_vars

\* the holder cancelled the future of the first item before its coroutine had
\* finished; the coroutine then finished and the future is still cancelled,
\* while the second item's future holds its own result
C18_Witness ==
  /\ future[1] = Cancelled /\ awaited[1] = 1 /\ item # 1
  /\ future[2] = Ret(2)

\* item i is in the queue
InQueue(i) == \E n \in 1..Len(queue) : queue[n] = i

\* C19: while the executor is not stopped no submitted item is lost: every
\* item is still in the queue, or in the hands of the current poll, or its
\* coroutine has been awaited, and no coroutine is awaited twice.
C19_NoItemLost ==
  ~stopEvent =>
    \A i \in 1..nitems :
      /\ awaited[i] <= 1
      /\ InQueue(i) \/ getItem = i \/ awaited[i] = 1

\* _process_queue is at its polling statement, where it takes queued items
LoopTakesItems == ppc \in {"test", "poll"}

\* C20: submitted coroutines are interleaved: while a coroutine is suspended
\* at an await and a later item is queued, the loop goes on taking items, so
\* that the later coroutine can start and complete first.
C20_Interleaved ==
  \A j \in Items : (ppc = "susp" /\ InQueue(j)) => LoopTakesItems

\* C21: an item submitted after shutdown() has returned is rejected: submit
\* accepts nothing (creates no future, enqueues nothing) once a shutdown()
\* call has returned.
C21_RejectedAfterShutdown == late = {}

\* C22: after a shutdown() has returned the bridge is stopped for good: no
\* event loop is running, and a run_async call that begins afterwards ends
\* with the not-running error.
C22_NeverRestarts ==
  /\ sdReturned => \A l \in Loops : runner[l] = 0
  /\ \A t \in Callers : (afterSd[t] /\ RunOver(t)) => res[t] = NotRunning

\* C23: the callback of an item is invoked at most once, and only with the
\* future of the item holding the result of its coroutine: never for a
\* coroutine that raised, never for a future that was done before, and an
\* exception of the callback leaves that result in place.
C23_CallbackOnSuccess ==
  \A i \in Items :
    /\ called[i] <= 1
    /\ called[i] = 1 => future[i] = Ret(i)

\* the callback of the first item raised after its result was set; the
\* coroutine of the second item raised and its callback was not invoked; the
\* third item was cancelled before its coroutine returned, callback not invoked
C23_Witness ==
  /\ cbk[1] = "raises" /\ called[1] = 1 /\ future[1] = Ret(1)
  /\ cbk[2] = "returns" /\ called[2] = 0 /\ future[2] = Exc(2)
  /\ cbk[3] = "returns" /\ called[3] = 0 /\ future[3] = Cancelled
  /\ awaited[3] = 1 /\ item = 0

\* C24: the executor thread survives the failure of a task: _process_queue
\* ends only once the stop event is set.
C24_WorkerSurvives == ppc = "dead" => stopEvent

\* C25: process_query never raises: when the bridge call fails (the loop is
\* not running, or the wait of 120 s times out) it returns the error dict,
\* with 'error' True and an answer that apologises.
C25_NeverRaises ==
  /\ pqReply # RaisedReply
  /\ pqFail # "none" => pqReply.error /\ pqReply.sorry

\* the wait timed out with the coroutine still before its save_context; an
\* earlier call had saved an exchange
C25_Witness ==
  /\ pqFail = "timeout" /\ pqReply = PqError /\ qpc = "save" /\ memory = 1

\* C26: when the invocation of the QA chain raises, the coroutine returns the
\* error dict and the conversation memory is as it was when the call began;
\* the memory changes only in a call whose chain returned a result.
C26_MemoryKeptOnChainError ==
  /\ result = ChainError => memory = memStart /\ result.error
  /\ memory # memStart => did.chain /\ result \in {Answer, Fallback}

\* the chain raised in the second call, after a first call had saved an
\* exchange; process_query returned the error dict of the chain
C26_Witness ==
  /\ pqReply = ChainError /\ qpc = "idle" /\ memory = 1 /\ memStart = 1
  /\ did.chain

\* C27: a query whose lower-cased text contains a flight keyword is answered
\* by the flight handler alone: the coroutine returns one of the handler's
\* dicts, no image is processed, the QA chain is not invoked and the memory
\* is as it was when the call began.
C27_FlightOnly ==
  ((\E w \in FlightKeywords : Contains(Lower(query), w))
      /\ pqFail # "notrunning") =>
    /\ ~did.img /\ ~did.chain /\ memory = memStart
    /\ qpc \in {"ret", "idle"} => result \in FlightReplies

\* "Fly" sent with an image, after a call that saved an exchange:
\* process_query returned the dict of the flight handler
C27_Witness ==
  /\ query = <<"F", "l", "y">> /\ image /\ qpc = "idle"
  /\ pqReply = FlightReply("data") /\ memory = 1

\* C28: get_chatbot constructs at most one Chatbot successfully, and every
\* call that returns returns that instance.
C28_SingleChatbot ==
  /\ nbots <= 1
  /\ \A t \in BotThreads : got[t] > 0 => got[t] = 1

\* C29: a submitted message is processed exactly when it is not blank and
\* differs from last_submit as it was, and processing makes it last_submit;
\* so a message equal to the last processed submission is not processed again.
C29_ProcessedIffNew ==
  handled.done =>
    /\ handled.processed <=>
         /\ \E n \in 1..Len(handled.text) : handled.text[n] # " "
         /\ handled.last # Text(handled.text)
    /\ handled.processed => lastSubmit = Text(handled.text)
    /\ ~handled.processed => lastSubmit = handled.last

\* "a" was submitted and processed, then submitted again and not processed
C29_Witness ==
  /\ handled.done /\ ~handled.processed
  /\ handled.text = <<"a">> /\ handled.last = Text(<<"a">>)
  /\ messages = Val(<<"welcome", "user", "bot">>)

\* C30: init_session_state leaves an existing conversation alone: with
\* messages not empty it changes neither messages nor sources nor
\* uploaded_images (a missing key gets its empty default, not the value of
\* the URL); and when it has returned messages is not empty.
C30_ConversationKept ==
  [][(upc = "init" /\ upc' # "init") =>
       /\ ~NoMessages(messages) =>
            /\ messages' = messages
            /\ sources' = (IF sources.has THEN sources ELSE Val(<< >>))
            /\ uploaded' = (IF uploaded.has THEN uploaded ELSE Val(<< >>))
       /\ upc' = "body" => messages'.has /\ messages'.v # << >>]_vars

\* init_session_state has run in a session whose conversation had grown
\* beyond the one carried in the URL, and the conversation is as it was
C30_Witness ==
  /\ upc = "body"
  /\ seen.msgs = Val(<<"old", "user", "bot">>)
  /\ seen.url.messages = Val(<<"old">>)
  /\ messages = seen.msgs
  /\ sources = Val(<<"oldsource">>)

=============================================================================
